---------------------------- MODULE Spec2Model ----------------------------
(***************************************************************************)
(* tokentop (src/tools/tokentop/src/main.rs): the streaming token analyser. *)
(*                                                                         *)
(* A reader thread tokenizes stdin line by line, evaluates every token and *)
(* sends the TokenStats over an unbounded mpsc channel; the main loop      *)
(* drains the channel into AnalysisState (a rolling window with a          *)
(* frequency table and derived metrics), renders at an interval and sleeps.*)
(*                                                                         *)
(* Text is a sequence of one-character strings (<<"t","h","e">>), so that  *)
(* splitting, joining, prefix and substring tests are computed.  f64       *)
(* values are exact rationals: a mean or ratio is a pair <<num, den>>, a   *)
(* perplexity is counted in halves, a confidence in tenths, a threshold in *)
(* thousandths.  The sum of confidences, whose terms are not binary        *)
(* fractions, also carries the rounding error of its f64 additions.  Time  *)
(* is a discrete clock of ticks.                                           *)
(***************************************************************************)
EXTENDS Integers, Sequences, FiniteSets, TLC

(***************************************************************************)
(* Bounds of the model.                                                    *)
(***************************************************************************)
\* largest --buffer-size explored besides the default
MaxBufferSize == 2
\* the clock stops advancing at this tick
MaxClock == 2
\* clock ticks in Duration::from_secs(1)
TicksPerSecond == 2
\* size of the largest input stream: its tokens, plus its lines without one
MaxInput == 3
\* length of the longest token built from every mix of character classes
MaxShapeLen == 3
\* length of the longest all-letter token
MaxWordLen == 10

(***************************************************************************)
(* Program constants.                                                      *)
(***************************************************************************)
DefaultBufferSize == 1000
\* default thresholds: 0.4 and 0.5 in thousandths, 20.0 in halves
DefaultRepetitionThreshold == 400
DefaultPerplexityThreshold == 40
DefaultConfidenceThreshold == 500
\* tokens.windows(3), count >= 3, list_count >= 3, .take(20), .take(3)
NgramSize == 3
NgramRepeatThreshold == 3
ListingMinCount == 3
RecentSlice == 20
PatternDisplayCap == 3

Max(a, b) == IF a >= b THEN a ELSE b
Min(a, b) == IF a <= b THEN a ELSE b

(***************************************************************************)
(* Text helpers (str methods of the standard library, on char sequences).  *)
(***************************************************************************)
UpperCase == <<"A","B","C","D","E","F","G","H","I","J","K","L","M",
               "N","O","P","Q","R","S","T","U","V","W","X","Y","Z">>
LowerCase == <<"a","b","c","d","e","f","g","h","i","j","k","l","m",
               "n","o","p","q","r","s","t","u","v","w","x","y","z">>
Letters == {UpperCase[i] : i \in 1..26} \cup {LowerCase[i] : i \in 1..26}
Digits == {"0","1","2","3","4","5","6","7","8","9"}
\* char::is_whitespace, over the characters the inputs use
WhiteSpace == {" ", "\t"}

\* char::to_lowercase
ToLowerChar(c) ==
    IF \E i \in 1..26 : UpperCase[i] = c
    THEN LowerCase[CHOOSE i \in 1..26 : UpperCase[i] = c]
    ELSE c

\* str::to_lowercase
ToLowercase(s) == [i \in 1..Len(s) |-> ToLowerChar(s[i])]

\* faulty starts_with: the pattern may begin at any position
StartsAnywhere(s, p) ==
    \E i \in 1..(Len(s) - Len(p) + 1) : SubSeq(s, i, i + Len(p) - 1) = p

\* str::starts_with
StartsWith(s, p) == Len(p) <= Len(s) /\ SubSeq(s, 1, Len(p)) = p

\* str::contains(&str)
Contains(s, p) ==
    \E i \in 1..(Len(s) - Len(p) + 1) : SubSeq(s, i, i + Len(p) - 1) = p

\* [String]::join(sep)
RECURSIVE Join(_, _)
Join(ws, sep) ==
    IF ws = <<>> THEN <<>>
    ELSE IF Len(ws) = 1 THEN ws[1]
    ELSE ws[1] \o sep \o Join(Tail(ws), sep)

\* str::split_whitespace: the maximal runs of non-whitespace characters, in
\* order; cur is the run being read
RECURSIVE SplitWs(_, _)
SplitWs(line, cur) ==
    IF line = <<>> THEN (IF cur = <<>> THEN <<>> ELSE <<cur>>)
    ELSE IF Head(line) \in WhiteSpace
         THEN (IF cur = <<>> THEN <<>> ELSE <<cur>>) \o SplitWs(Tail(line), <<>>)
         ELSE SplitWs(Tail(line), Append(cur, Head(line)))

\* str::split(' '): the pieces between single spaces, empty ones included
RECURSIVE SplitOnSpace(_, _)
SplitOnSpace(line, cur) ==
    IF line = <<>> THEN <<cur>>
    ELSE IF Head(line) = " "
         THEN <<cur>> \o SplitOnSpace(Tail(line), <<>>)
         ELSE SplitOnSpace(Tail(line), Append(cur, Head(line)))

\* faulty tokenizer: the line is cut at every space and nowhere else
tokenize_line_on_spaces(line) == SplitOnSpace(line, <<>>)

tokenize_line(line) == SplitWs(line, <<>>)

(***************************************************************************)
(* Token evaluator.                                                        *)
(***************************************************************************)
\* char::len_utf8, over the characters the inputs use
len_utf8(c) == IF c = "U+2022" THEN 3 ELSE 1

\* str::len, the length in bytes
RECURSIVE len(_)
len(token) == IF token = <<>> THEN 0 ELSE len_utf8(Head(token)) + len(Tail(token))

\* in halves: 5.0 + 2.0 len, 10.0 + 1.5 len, 15.0 + 0.5 len
calculate_perplexity(token) ==
    LET n == len(token) IN
    IF n >= 1 /\ n <= 3 THEN 10 + 4 * n
    ELSE IF n >= 4 /\ n <= 8 THEN 20 + 3 * n
    ELSE 30 + n

\* faulty confidence: one alphabetic character is enough for 0.8
calculate_confidence_any(token) ==
    IF \E i \in 1..Len(token) : token[i] \in Letters THEN 8
    ELSE IF \E i \in 1..Len(token) : token[i] \in Digits THEN 6
    ELSE 4

\* in tenths: 0.8, 0.6, 0.4
calculate_confidence(token) ==
    IF \A i \in 1..Len(token) : token[i] \in Letters THEN 8
    ELSE IF \E i \in 1..Len(token) : token[i] \in Digits THEN 6
    ELSE 4

is_repetitive_token(token) ==
    IF len(token) < 3 THEN FALSE
    ELSE \E i \in 1..(Len(token) - 1) : token[i] = token[i + 1]

\* now is Instant::now() of the reader thread
analyze_token(token, now) ==
    [timestamp |-> now,
     token |-> token,
     perplexity |-> calculate_perplexity(token),
     confidence |-> calculate_confidence(token),
     is_repetitive |-> is_repetitive_token(token)]

(***************************************************************************)
(* AnalysisState.  capacity is token_buffer.capacity(), the allocation the *)
(* VecDeque holds, which update compares the length with.                  *)
(***************************************************************************)
\* VecDeque::with_capacity(n) allocates "space for at least n elements".
\* The standard library since 1.67 allocates exactly n; before, the ring
\* buffer held 2^k - 1 elements, the least such number >= max(n, 1).
RECURSIVE RingCapacity(_, _)
RingCapacity(n, c) == IF c >= n THEN c ELSE RingCapacity(n, 2 * c + 1)

WithCapacity(n) == {n, RingCapacity(n, 1)}

\* RawVec::grow_amortized, when push_back finds the deque full: at least
\* double, and at least 4 elements (TokenStats is between 8 and 1024 bytes)
Grow(cap) == Max(4, Max(2 * cap, cap + 1))

\* AnalysisState::new; cap is the capacity the allocation got
\* faulty constructor: the means start as the quotient 0/0 of an empty window
new_undefined(cap) ==
    [tokens_per_second |-> 0,
     avg_perplexity |-> <<0, 0>>,
     repetition_score |-> <<0, 0>>,
     confidence_score |-> <<0, 0, 0>>,
     detected_patterns |-> <<>>,
     warning_flags |-> <<>>,
     token_buffer |-> <<>>,
     pattern_tracker |-> <<>>,
     capacity |-> cap]

\* faulty constructor: the confidence threshold is applied to the initial 0.0
new_warned(cap) ==
    [tokens_per_second |-> 0,
     avg_perplexity |-> <<0, 1>>,
     repetition_score |-> <<0, 1>>,
     confidence_score |-> <<0, 1, 0>>,
     detected_patterns |-> <<>>,
     warning_flags |-> <<[kind |-> "Low confidence", marker |-> <<>>]>>,
     token_buffer |-> <<>>,
     pattern_tracker |-> <<>>,
     capacity |-> cap]

new(cap) ==
    [tokens_per_second |-> 0,
     avg_perplexity |-> <<0, 1>>,
     repetition_score |-> <<0, 1>>,
     confidence_score |-> <<0, 1, 0>>,
     detected_patterns |-> <<>>,
     warning_flags |-> <<>>,
     token_buffer |-> <<>>,
     pattern_tracker |-> <<>>,
     capacity |-> cap]

(***************************************************************************)
(* f64 sums of confidences.  The literals 0.8, 0.6 and 0.4 are not binary  *)
(* fractions, so every partial sum is rounded.  An f64 near t tenths is    *)
(* the pair <<t, e>> with exact value t/10 + e/(10 * 2^54); m, its value   *)
(* in units of 2^-54, is an integer with 10 * m = t * 2^54 + e.            *)
(***************************************************************************)
\* the f64 nearest to the literal of c tenths: 0.8, 0.6, 0.4
f64_literal(c) ==
    IF c = 8 THEN <<8, 8>> ELSE IF c = 6 THEN <<6, 0 - 4>> ELSE <<c, c>>

Pow2(k) == 2 ^ k

\* x >= 2^p
AtLeastPow2(x, p) ==
    \/ 2 * x[1] > 10 * Pow2(p + 1)
    \/ 2 * x[1] = 10 * Pow2(p + 1) /\ x[2] >= 0

\* j with ulp(x) = 2^(j - 54), x >= 0.25: j = 0 in [0.25, 0.5), 1 in [0.5, 1)
RECURSIVE UlpExp(_, _)
UlpExp(x, j) == IF AtLeastPow2(x, j - 1) THEN UlpExp(x, j + 1) ELSE j

\* m mod 2^k: 5 * m = t * 2^53 + e/2, and 2^k divides 2^53
Residue(x, k) ==
    CHOOSE r \in 0..(Pow2(k) - 1) : (5 * r - (x[2] \div 2)) % Pow2(k) = 0

\* rounding to the nearest f64, ties to the even mantissa
round_f64(x) ==
    LET j == UlpExp(x, 0)
        r == Residue(x, j)
        down == <<x[1], x[2] - 10 * r>>
        up == <<x[1], x[2] + 10 * (Pow2(j) - r)>>
    IN IF r = 0 THEN x
       ELSE IF 2 * r < Pow2(j) THEN down
       ELSE IF 2 * r > Pow2(j) THEN up
       ELSE IF Residue(x, j + 1) = r THEN down ELSE up

\* f64 addition; 0.0 + y is y
add_f64(x, y) ==
    IF x[1] = 0 THEN y ELSE round_f64(<<x[1] + y[1], x[2] + y[2]>>)

\* iter().map(|t| t.confidence).sum::<f64>(), front to back
RECURSIVE sum_confidence(_, _)
sum_confidence(buf, acc) ==
    IF buf = <<>> THEN acc
    ELSE sum_confidence(Tail(buf), add_f64(acc, f64_literal(Head(buf).confidence)))

RECURSIVE SumOf(_, _)
SumOf(buf, field) ==
    IF buf = <<>> THEN 0 ELSE Head(buf)[field] + SumOf(Tail(buf), field)

Texts(buf) == [i \in 1..Len(buf) |-> buf[i].token]

Space == <<" ">>

\* the first loop of detect_patterns: one report per 3-token window whose
\* joined phrase is a key of pattern_tracker with count >= 3
RepeatedPhrases(tokens, tracker) ==
    LET n == Max(0, Len(tokens) - NgramSize + 1)
        phrases == [i \in 1..n |-> Join(SubSeq(tokens, i, i + NgramSize - 1), Space)]
        hits == SelectSeq(phrases,
                    LAMBDA p : p \in DOMAIN tracker /\ tracker[p] >= NgramRepeatThreshold)
    IN [i \in 1..Len(hits) |->
            [kind |-> "Repeated phrase", phrase |-> hits[i], count |-> tracker[hits[i]]]]

listing_indicators == {<<"1", ".">>, <<"2", ".">>, <<"3", ".">>, <<"-">>, <<"*">>, <<"U+2022">>}

uncertainty_words ==
    {<<"m","a","y","b","e">>, <<"p","e","r","h","a","p","s">>,
     <<"p","r","o","b","a","b","l","y">>, <<"m","i","g","h","t">>,
     <<"c","o","u","l","d">>}

CountIf(tokens, Test(_)) == Cardinality({i \in 1..Len(tokens) : Test(tokens[i])})

ListingPattern == [kind |-> "Listing pattern detected", phrase |-> <<>>, count |-> 0]
UncertaintyPattern == [kind |-> "High uncertainty language", phrase |-> <<>>, count |-> 0]

\* faulty comparison: a fraction of exactly 0.1 reports too
HighUncertaintyAtThreshold(count, total) == count * 10 >= total

\* line 172: uncertainty_count / tokens.len() > 0.1
HighUncertainty(count, total) == count * 10 > total

\* faulty clear: the entries of the previous update stay
kept(list) == list

\* lines 139 and 178, Vec::clear
cleared(list) == <<>>

\* faulty detect_patterns: the uncertainty check runs before the listing check
detect_patterns_hedges_first(st) ==
    LET tokens == Texts(st.token_buffer)
        list_count ==
            CountIf(tokens, LAMBDA t : \E ind \in listing_indicators : StartsWith(t, ind))
        uncertainty_count ==
            CountIf(tokens,
                LAMBDA t : \E word \in uncertainty_words : Contains(ToLowercase(t), word))
    IN [st EXCEPT !.detected_patterns =
            cleared(st.detected_patterns)
            \o RepeatedPhrases(tokens, st.pattern_tracker)
            \o (IF HighUncertainty(uncertainty_count, Len(tokens))
                THEN <<UncertaintyPattern>> ELSE <<>>)
            \o (IF list_count >= ListingMinCount THEN <<ListingPattern>> ELSE <<>>)]

detect_patterns(st) ==
    LET tokens == Texts(st.token_buffer)
        list_count ==
            CountIf(tokens, LAMBDA t : \E ind \in listing_indicators : StartsWith(t, ind))
        uncertainty_count ==
            CountIf(tokens,
                LAMBDA t : \E word \in uncertainty_words : Contains(ToLowercase(t), word))
    IN [st EXCEPT !.detected_patterns =
            cleared(st.detected_patterns)
            \o RepeatedPhrases(tokens, st.pattern_tracker)
            \o (IF list_count >= ListingMinCount THEN <<ListingPattern>> ELSE <<>>)
            \o (IF HighUncertainty(uncertainty_count, Len(tokens))
                THEN <<UncertaintyPattern>> ELSE <<>>)]

hallucination_markers ==
    << <<"A","s"," ","a","n"," ","A","I">>,
       <<"I"," ","c","a","n","n","o","t">>,
       <<"I"," ","d","o","n","'","t"," ","h","a","v","e"," ","a","c","c","e","s","s">> >>

Warning(kind, marker) == [kind |-> kind, marker |-> marker]

\* self.token_buffer.iter().rev().take(20): the texts of the last 20 records
RecentTokens(buf) ==
    {buf[i].token : i \in Max(1, Len(buf) - RecentSlice + 1)..Len(buf)}

\* line 180, preceded by its faulty variant that also fires at the threshold
HighRepetitionAtThreshold(st, args) ==
    st.repetition_score[1] * 1000 >= args.repetition_threshold * st.repetition_score[2]

HighRepetition(st, args) ==
    st.repetition_score[1] * 1000 > args.repetition_threshold * st.repetition_score[2]

\* faulty comparison: a mean of exactly the threshold warns too
PerplexityRisingAtThreshold(st, args) ==
    st.avg_perplexity[1] >= args.perplexity_threshold * st.avg_perplexity[2]

\* line 184; perplexities are multiples of 0.5, their f64 sum is exact
PerplexityRising(st, args) ==
    st.avg_perplexity[1] > args.perplexity_threshold * st.avg_perplexity[2]

\* line 188, on confidence_score = <<sum, n, err>>, the f64 sum of nominal
\* value sum tenths and error err, to be divided by n.  The rounded quotient is
\* below 0.5 iff the sum is below n/2 - n * 2^-55; for a sum of nominal value
\* n/2 that is err < -5 * n.  Away from the tie the error is far too small to
\* matter; thresholds other than 0.5 do not occur in the configurations.
LowConfidence(st, args) ==
    LET sum == st.confidence_score[1]
        n == st.confidence_score[2]
        err == st.confidence_score[3]
    IN \/ sum * 100 < args.confidence_threshold * n
       \/ /\ sum * 100 = args.confidence_threshold * n
          /\ args.confidence_threshold = DefaultConfidenceThreshold
          /\ err < 0 - 5 * n

check_warnings(st, args) ==
    LET recent_tokens == RecentTokens(st.token_buffer)
        found == SelectSeq(hallucination_markers,
                    LAMBDA m : \E t \in recent_tokens : Contains(t, m))
    IN [st EXCEPT !.warning_flags =
            cleared(st.warning_flags)
            \o (IF HighRepetition(st, args)
             THEN <<Warning("High repetition detected", <<>>)>> ELSE <<>>)
            \o (IF PerplexityRising(st, args)
                THEN <<Warning("Perplexity rising", <<>>)>> ELSE <<>>)
            \o (IF LowConfidence(st, args)
                THEN <<Warning("Low confidence", <<>>)>> ELSE <<>>)
            \o [i \in 1..Len(found) |-> Warning("Hallucination marker", found[i])]]

\* faulty calculate_metrics: the mean perplexity folds the newest record into
\* the mean of the previous update instead of summing the buffer
calculate_metrics_running(st, args, now) ==
    IF st.token_buffer = <<>> THEN st
    ELSE
    LET buf == st.token_buffer
        recent_tokens == {i \in 1..Len(buf) : now - buf[i].timestamp < TicksPerSecond}
        total_tokens == Len(buf)
        unique_tokens == Cardinality(DOMAIN st.pattern_tracker)
        newest == buf[Len(buf)].perplexity
        m == [st EXCEPT
                !.tokens_per_second = Cardinality(recent_tokens),
                !.avg_perplexity =
                    IF Len(buf) = 1 THEN <<newest, 1>>
                    ELSE <<st.avg_perplexity[1] + newest * st.avg_perplexity[2],
                           2 * st.avg_perplexity[2]>>,
                !.confidence_score =
                    LET sum == sum_confidence(buf, <<0, 0>>)
                    IN <<sum[1], Len(buf), sum[2]>>,
                !.repetition_score =
                    IF total_tokens > 0
                    THEN <<total_tokens - unique_tokens, total_tokens>>
                    ELSE <<0, 1>>]
    IN check_warnings(detect_patterns(m), args)

\* now is Instant::now() of the main thread
calculate_metrics(st, args, now) ==
    IF st.token_buffer = <<>> THEN st
    ELSE
    LET buf == st.token_buffer
        recent_tokens == {i \in 1..Len(buf) : now - buf[i].timestamp < TicksPerSecond}
        total_tokens == Len(buf)
        unique_tokens == Cardinality(DOMAIN st.pattern_tracker)
        m == [st EXCEPT
                !.tokens_per_second = Cardinality(recent_tokens),
                !.avg_perplexity = <<SumOf(buf, "perplexity"), Len(buf)>>,
                !.confidence_score =
                    LET sum == sum_confidence(buf, <<0, 0>>)
                    IN <<sum[1], Len(buf), sum[2]>>,
                !.repetition_score =
                    IF total_tokens > 0
                    THEN <<total_tokens - unique_tokens, total_tokens>>
                    ELSE <<0, 1>>]
    IN check_warnings(detect_patterns(m), args)

\* pattern_tracker is a function whose domain is the key set
Lookup(tracker, key) == IF key \in DOMAIN tracker THEN tracker[key] ELSE 0
Insert(tracker, key, n) ==
    [k \in DOMAIN tracker \cup {key} |-> IF k = key THEN n ELSE tracker[k]]
Remove(tracker, key) == [k \in DOMAIN tracker \ {key} |-> tracker[k]]

\* faulty Untrack: the count is decremented and the entry always kept
UntrackKeepsEntry(tracker, old) ==
    LET count == Lookup(tracker, old) IN
    IF count = 0 THEN tracker ELSE Insert(tracker, old, count - 1)

\* lines 81-86: the evicted record's text loses one count, or its entry
Untrack(tracker, old) ==
    LET count == Lookup(tracker, old) IN
    IF count <= 1 THEN Remove(tracker, old) ELSE Insert(tracker, old, count - 1)

\* faulty Track: the entry is set to 1 instead of incremented
TrackOverwrites(tracker, token) == Insert(tracker, token, 1)

\* line 91: *entry(token).or_insert(0) += 1
Track(tracker, token) == Insert(tracker, token, Lookup(tracker, token) + 1)

\* line 78: the test that decides an eviction
AtCapacity(st) == Len(st.token_buffer) >= st.capacity

\* VecDeque::push_back grows the allocation when the deque is full
PushBack(st, rec) ==
    [st EXCEPT !.token_buffer = Append(st.token_buffer, rec),
               !.capacity = IF Len(st.token_buffer) >= st.capacity
                            THEN Grow(st.capacity) ELSE st.capacity]

\* AnalysisState::update
update(st, token_stats, args, now) ==
    LET evicted ==
            IF AtCapacity(st) /\ st.token_buffer # <<>>
            THEN [st EXCEPT !.token_buffer = Tail(st.token_buffer),
                            !.pattern_tracker =
                                Untrack(st.pattern_tracker, Head(st.token_buffer).token)]
            ELSE st
        tracked == [evicted EXCEPT !.pattern_tracker =
                        Track(evicted.pattern_tracker, token_stats.token)]
    IN calculate_metrics(PushBack(tracked, token_stats), args, now)

(***************************************************************************)
(* display_stats: the panel one call prints.                               *)
(***************************************************************************)
\* (value * width as f64) as usize, for value = num/den: the cast truncates
\* and saturates at 0
Filled(num, den, width) == Max(0, (num * width) \div den)

\* width - filled panics when filled > width (usize subtraction)
create_progress_bar(num, den, width) ==
    LET filled == Filled(num, den, width) IN
    IF filled > width THEN [panic |-> TRUE, filled |-> filled, empty |-> 0]
    ELSE [panic |-> FALSE, filled |-> filled, empty |-> width - filled]

Take(seq, n) == SubSeq(seq, 1, Min(n, Len(seq)))

display_stats(st, args) ==
    [tokens_per_second |-> st.tokens_per_second,
     avg_perplexity |-> st.avg_perplexity,
     perplexity_status |-> PerplexityRising(st, args),
     repetition_bar |->
        create_progress_bar(st.repetition_score[1], st.repetition_score[2], 10),
     repetition_percent |-> Max(0, (st.repetition_score[1] * 100) \div st.repetition_score[2]),
     confidence_bar |->
        create_progress_bar(st.confidence_score[1], st.confidence_score[2] * 10, 10),
     confidence_percent |-> Max(0, (st.confidence_score[1] * 10) \div st.confidence_score[2]),
     patterns |->
        IF args.patterns /\ st.detected_patterns # <<>>
        THEN Take(st.detected_patterns, PatternDisplayCap) ELSE <<>>,
     warnings |-> st.warning_flags,
     recent |->
        IF args.patterns /\ st.token_buffer # <<>>
        THEN SubSeq(st.token_buffer, Max(1, Len(st.token_buffer) - 9), Len(st.token_buffer))
        ELSE <<>>]

(***************************************************************************)
(* Inputs.  A line of stdin is Ok(text) or an Err (undecodable bytes).     *)
(***************************************************************************)
OkLine(text) == [ok |-> TRUE, text |-> text]
ErrLine == [ok |-> FALSE, text |-> <<>>]

LineSet == {OkLine(<<"a">>), OkLine(<<" ", "a", "\t", "b", " ">>)}

RECURSIVE SeqsUpTo(_, _)
SeqsUpTo(S, n) ==
    IF n = 0 THEN {<<>>}
    ELSE LET shorter == SeqsUpTo(S, n - 1)
         IN shorter \cup {Append(q, x) : q \in {r \in shorter : Len(r) = n - 1}, x \in S}

RECURSIVE InputSize(_)
InputSize(lines) ==
    IF lines = <<>> THEN 0
    ELSE (IF Head(lines).ok THEN Max(1, Len(tokenize_line(Head(lines).text))) ELSE 1)
         + InputSize(Tail(lines))

\* every stream of lines of LineSet with at most MaxInput tokens, and two
\* streams with an undecodable line
Inputs ==
    {in \in SeqsUpTo(LineSet, MaxInput) : InputSize(in) <= MaxInput}
    \cup {<<ErrLine, OkLine(<<"a">>)>>,
          <<OkLine(<<"b", " ", "a">>), ErrLine, OkLine(<<>>), OkLine(<<" ", "\t">>),
            OkLine(<<"a">>)>>}

TheCatSat ==
    <<"t","h","e"," ","c","a","t"," ","s","a","t"," ",
      "t","h","e"," ","c","a","t"," ","s","a","t"," ",
      "t","h","e"," ","c","a","t"," ","s","a","t">>

SixAs == <<"a"," ","a"," ","a"," ","a"," ","a"," ","a"," ","b"," ","c"," ","d"," ","e">>

ICannot ==
    <<"I"," ","c","a","n","n","o","t"," ","b","r","o","w","s","e"," ",
      "r","e","a","l","-","t","i","m","e"," ","d","a","t","a">>

ScenarioInputs == {<<OkLine(TheCatSat)>>, <<OkLine(SixAs)>>, <<OkLine(ICannot)>>}

BufferSizes == 0..MaxBufferSize

\* an immediate render cadence with the pattern panel off and the default
\* repetition threshold, or an interval of one tick with the panel on and
\* threshold 0.5
ArgsSet ==
    {[interval |-> IF p THEN 1 ELSE 0,
      buffer_size |-> n,
      patterns |-> p,
      repetition_threshold |-> IF p THEN 500 ELSE DefaultRepetitionThreshold,
      perplexity_threshold |-> DefaultPerplexityThreshold,
      confidence_threshold |-> DefaultConfidenceThreshold,
      raw |-> FALSE] :
        n \in BufferSizes, p \in BOOLEAN}

DefaultArgs ==
    [interval |-> 1,
     buffer_size |-> DefaultBufferSize,
     patterns |-> TRUE,
     repetition_threshold |-> DefaultRepetitionThreshold,
     perplexity_threshold |-> DefaultPerplexityThreshold,
     confidence_threshold |-> DefaultConfidenceThreshold,
     raw |-> FALSE]

(***************************************************************************)
(* The program: the reader thread and the main loop.                       *)
(***************************************************************************)
VARIABLES
    args,         \* Args::parse()
    stdin,        \* the lines of standard input
    stdout,       \* the characters run_raw_mode printed
    clock,        \* Instant::now(), in ticks
    line_no,      \* lines the reader has taken from reader.lines()
    tokens,       \* tokens of the current line not yet sent
    tx_alive,     \* the reader thread still holds the Sender
    channel,      \* TokenStats sent and not yet received
    state,        \* AnalysisState
    last_update,  \* instant of the last render (of start-up before the first)
    cpc,          \* main loop position: "drain", "check", "sleep"; in raw
                  \* mode "raw", then "returned"
    recv_err,     \* the error that ended this iteration's drain
    panel,        \* what display_stats printed in this iteration, if it ran
    sent,         \* history: every TokenStats sent, in order
    pushed        \* history: every TokenStats passed to update, in order

vars == <<args, stdin, stdout, clock, line_no, tokens, tx_alive, channel, state,
          last_update, cpc, recv_err, panel, sent, pushed>>

InitWith(a, in) ==
    /\ args = a
    /\ stdin = in
    /\ stdout = <<>>
    /\ clock = 0
    /\ line_no = 0
    /\ tokens = <<>>
    /\ tx_alive = TRUE
    /\ channel = <<>>
    /\ \E cap \in WithCapacity(a.buffer_size) : state = new(cap)
    /\ last_update = 0
    /\ cpc = "drain"
    /\ recv_err = "None"
    /\ panel = <<>>
    /\ sent = <<>>
    /\ pushed = <<>>

\* a small stream under a small configuration
Init == \E a \in ArgsSet, in \in Inputs : InitWith(a, in)

\* one of the longer streams under the default configuration
InitScenario == \E in \in ScenarioInputs : InitWith(DefaultArgs, in)

\* time passes
Tick ==
    /\ clock < MaxClock
    /\ clock' = clock + 1
    /\ UNCHANGED <<args, stdin, stdout, line_no, tokens, tx_alive, channel, state,
                   last_update, cpc, recv_err, panel, sent, pushed>>

\* lines 223-225: the next line; an Err line is skipped
ReadLine ==
    /\ tx_alive
    /\ tokens = <<>>
    /\ line_no < Len(stdin)
    /\ line_no' = line_no + 1
    /\ tokens' = IF stdin[line_no + 1].ok
                 THEN tokenize_line(stdin[line_no + 1].text) ELSE <<>>
    /\ UNCHANGED <<args, stdin, stdout, clock, tx_alive, channel, state,
                   last_update, cpc, recv_err, panel, sent, pushed>>

\* a channel of sync_channel(1): send waits while a message is queued
HasRoomForOne(ch) == Len(ch) < 1

\* line 216: mpsc::channel() is unbounded, send never waits for room
HasRoom(ch) == TRUE

\* lines 226-231: evaluate the next token and send it.  The Receiver lives
\* as long as the main loop, so send never fails.
Send ==
    /\ tx_alive
    /\ tokens # <<>>
    /\ HasRoom(channel)
    /\ LET stats == analyze_token(Head(tokens), clock) IN
        /\ channel' = Append(channel, stats)
        /\ sent' = Append(sent, stats)
    /\ tokens' = Tail(tokens)
    /\ UNCHANGED <<args, stdin, stdout, clock, line_no, tx_alive, state,
                   last_update, cpc, recv_err, panel, pushed>>

\* line 234: end of input; the closure returns and drops the Sender
Eof ==
    /\ tx_alive
    /\ tokens = <<>>
    /\ line_no = Len(stdin)
    /\ tx_alive' = FALSE
    /\ UNCHANGED <<args, stdin, stdout, clock, line_no, tokens, channel, state,
                   last_update, cpc, recv_err, panel, sent, pushed>>

\* faulty try_recv: the newest message leaves the queue
try_recv_newest(ch) == [msg |-> ch[Len(ch)], rest |-> SubSeq(ch, 1, Len(ch) - 1)]

\* rx.try_recv() returning Ok: the oldest message leaves the queue
try_recv(ch) == [msg |-> Head(ch), rest |-> Tail(ch)]

\* lines 244-246: one round of the while-let with a message queued
Recv ==
    /\ cpc = "drain"
    /\ channel # <<>>
    /\ LET got == try_recv(channel) IN
        /\ state' = update(state, got.msg, args, clock)
        /\ pushed' = Append(pushed, got.msg)
        /\ channel' = got.rest
    /\ UNCHANGED <<args, stdin, stdout, clock, line_no, tokens, tx_alive,
                   last_update, cpc, recv_err, panel, sent>>

\* faulty drain: the while-let is left whatever the queue holds
DrainEndEarly ==
    /\ cpc = "drain"
    /\ recv_err' = IF tx_alive THEN "Empty" ELSE "Disconnected"
    /\ cpc' = "check"
    /\ UNCHANGED <<args, stdin, stdout, clock, line_no, tokens, tx_alive, channel,
                   state, last_update, panel, sent, pushed>>

\* line 244: try_recv returns Err (Empty, or Disconnected once the Sender is
\* dropped), which ends the while-let
DrainEnd ==
    /\ cpc = "drain"
    /\ channel = <<>>
    /\ recv_err' = IF tx_alive THEN "Empty" ELSE "Disconnected"
    /\ cpc' = "check"
    /\ UNCHANGED <<args, stdin, stdout, clock, line_no, tokens, tx_alive, channel,
                   state, last_update, panel, sent, pushed>>

\* faulty interval check: every iteration renders
IntervalIgnored == TRUE

\* line 249
IntervalElapsed == clock - last_update >= args.interval

\* lines 249-252
Render ==
    /\ cpc = "check"
    /\ IntervalElapsed
    /\ panel' = <<display_stats(state, args)>>
    /\ last_update' = clock
    /\ cpc' = "sleep"
    /\ UNCHANGED <<args, stdin, stdout, clock, line_no, tokens, tx_alive, channel,
                   state, recv_err, sent, pushed>>

\* line 249, the interval has not elapsed
SkipRender ==
    /\ cpc = "check"
    /\ ~IntervalElapsed
    /\ cpc' = "sleep"
    /\ UNCHANGED <<args, stdin, stdout, clock, line_no, tokens, tx_alive, channel,
                   state, last_update, recv_err, panel, sent, pushed>>

\* faulty sleep: the main thread never wakes
SleepOn ==
    /\ cpc = "sleep"
    /\ UNCHANGED vars

\* lines 254-255, 242: the sleep ends and the loop starts over
Sleep ==
    /\ cpc = "sleep"
    /\ cpc' = "drain"
    /\ recv_err' = "None"
    /\ panel' = <<>>
    /\ UNCHANGED <<args, stdin, stdout, clock, line_no, tokens, tx_alive, channel,
                   state, last_update, sent, pushed>>

Next ==
    \/ Tick
    \/ ReadLine
    \/ Send
    \/ Eof
    \/ Recv
    \/ DrainEnd
    \/ Render
    \/ SkipRender
    \/ Sleep

Spec == Init /\ [][Next]_vars

SpecScenario == InitScenario /\ [][Next]_vars

(***************************************************************************)
(* Unbounded time.  Once the clock stands at MaxClock, further time passes *)
(* by every recorded instant moving one tick into the past, down to the    *)
(* instant 0, which then stands for "MaxClock ticks ago or earlier".  The  *)
(* code compares elapsed times only with one second and with the          *)
(* interval, neither of which exceeds MaxClock ticks.                      *)
(***************************************************************************)
Earlier(t) == Max(0, t - 1)

EarlierAll(records) ==
    [i \in 1..Len(records) |-> [records[i] EXCEPT !.timestamp = Earlier(@)]]

TickOn ==
    /\ clock = MaxClock
    /\ last_update' = Earlier(last_update)
    /\ state' = [state EXCEPT !.token_buffer = EarlierAll(@)]
    /\ channel' = EarlierAll(channel)
    /\ sent' = EarlierAll(sent)
    /\ pushed' = EarlierAll(pushed)
    /\ UNCHANGED <<args, stdin, stdout, clock, line_no, tokens, tx_alive,
                   cpc, recv_err, panel>>

NextLive ==
    \/ Next
    \/ TickOn

\* the reader thread and the main thread are both scheduled again and again,
\* and time passes
\* three tokens on two lines, under a window of one record
InitLive ==
    \E a \in {x \in ArgsSet : x.buffer_size = 1} :
        InitWith(a, <<OkLine(<<" ", "a", "\t", "b", " ">>), OkLine(<<"a">>)>>)

\* what a Recv step does to the channel; no other step of NextLive takes
\* the oldest message off it
Received == cpc = "drain" /\ channel # <<>> /\ channel' = Tail(channel)

SpecLive ==
    /\ InitLive
    /\ [][NextLive]_vars
    /\ WF_vars(ReadLine \/ Send \/ Eof)
    /\ WF_channel(Received)
    /\ WF_vars(DrainEnd \/ Render \/ SkipRender \/ Sleep)
    /\ WF_vars(Tick \/ TickOn)

(***************************************************************************)
(* Raw mode: main returns through run_raw_mode before the channel, the     *)
(* reader thread and the AnalysisState exist.                              *)
(***************************************************************************)
\* the value of a variable whose object main never constructs
NotCreated == "NotCreated"

RawArgsSet == {[a EXCEPT !.raw = TRUE] : a \in ArgsSet \cup {DefaultArgs}}

\* lines 209-213: args.raw is set, run_raw_mode runs on the main thread
InitRaw ==
    \E a \in RawArgsSet, in \in Inputs \cup ScenarioInputs :
        /\ args = a
        /\ stdin = in
        /\ stdout = <<>>
        /\ clock = 0
        /\ line_no = 0
        /\ tokens = <<>>
        /\ tx_alive = FALSE
        /\ channel = NotCreated
        /\ state = NotCreated
        /\ last_update = 0
        /\ cpc = "raw"
        /\ recv_err = "None"
        /\ panel = <<>>
        /\ sent = <<>>
        /\ pushed = <<>>

\* print!: the text without a line end
print(out, token) == out \o token

\* line 266, println!: the text and a line end
println(out, token) == out \o token \o <<"\n">>

\* lines 262-264: the next line; an Err line is skipped
RawReadLine ==
    /\ cpc = "raw"
    /\ tokens = <<>>
    /\ line_no < Len(stdin)
    /\ line_no' = line_no + 1
    /\ tokens' = IF stdin[line_no + 1].ok
                 THEN tokenize_line(stdin[line_no + 1].text) ELSE <<>>
    /\ UNCHANGED <<args, stdin, stdout, clock, tx_alive, channel, state,
                   last_update, cpc, recv_err, panel, sent, pushed>>

\* lines 265-267: one round of the inner for
RawPrint ==
    /\ cpc = "raw"
    /\ tokens # <<>>
    /\ stdout' = println(stdout, Head(tokens))
    /\ tokens' = Tail(tokens)
    /\ UNCHANGED <<args, stdin, clock, line_no, tx_alive, channel, state,
                   last_update, cpc, recv_err, panel, sent, pushed>>

\* lines 270, 213: reader.lines() is exhausted, run_raw_mode and main return
RawReturn ==
    /\ cpc = "raw"
    /\ tokens = <<>>
    /\ line_no = Len(stdin)
    /\ cpc' = "returned"
    /\ UNCHANGED <<args, stdin, stdout, clock, line_no, tokens, tx_alive,
                   channel, state, last_update, recv_err, panel, sent, pushed>>

NextRaw ==
    \/ RawReadLine
    \/ RawPrint
    \/ RawReturn

\* the main thread is the only one and runs while it can
SpecRaw == InitRaw /\ [][NextRaw]_vars /\ WF_vars(NextRaw)

(***************************************************************************)
(* Streams that exercise the token evaluator: one line of one to three     *)
(* tokens of chosen shapes, under the default configuration.               *)
(***************************************************************************)
\* the first n letters of the alphabet: n bytes, no two adjacent equal
Word(n) == SubSeq(LowerCase, 1, n)

\* a letter, a digit, a punctuation mark
ShapeChars == {"a", "1", "-"}

Shapes == SeqsUpTo(ShapeChars, MaxShapeLen) \ {<<>>}

\* a line holding the given tokens, separated by single spaces
LineOf(toks) == OkLine(Join(toks, Space))

TokenInputs ==
    {<<LineOf(<<t>>)>> : t \in Shapes}
    \cup {<<LineOf(<<Word(m), Word(n)>>)>> : m \in 1..MaxWordLen, n \in {MaxWordLen}}
    \cup {<<LineOf(<<Word(n), Word(n + 1)>>)>> : n \in 1..(MaxWordLen - 1)}
    \cup {<<LineOf(<<<<"a", "1">>, <<"-">>, <<"a", "1">>>>)>>,
          <<LineOf(<<<<"U+2022">>, <<"U+2022", "U+2022">>>>)>>}

InitTokens == \E in \in TokenInputs : InitWith(DefaultArgs, in)

SpecTokens == InitTokens /\ [][Next]_vars

(***************************************************************************)
(* Streams whose window gains and loses patterns and warnings: one line of *)
(* two to ten tokens, under the default configuration with a window of     *)
(* three records or of the default size.                                   *)
(***************************************************************************)
Dash == <<"-">>
Bullet == <<"U+2022">>
Maybe == <<"m", "a", "y", "b", "e">>

\* streams whose entries go away again in a window of three records
EvictingInputs ==
    {<<LineOf(<<Dash, Dash, Dash, <<"a">>>>)>>,
     <<LineOf(<<Maybe, <<"a">>, <<"b">>, <<"c">>>>)>>,
     <<LineOf(<<Word(8), <<"a">>, <<"a">>, <<"a">>>>)>>}

\* a stream that ends with a listing and an uncertainty entry held
TwoPatterns == <<LineOf(<<Dash, <<"*">>, Maybe, <<"1", ".">>>>)>>

PatternInputs ==
    EvictingInputs
    \cup {TwoPatterns,
     <<LineOf(<<Dash, <<"*">>, <<"a", "-">>, <<"b", "*">>, <<"3", ".">>>>)>>,
     <<LineOf(<<<<"1", ".", "a">>, <<"2", ".">>, Bullet, <<"*", "x">>, Dash>>)>>,
     <<LineOf(<<<<"1">>, <<"4", ".">>, <<".", "1">>, Dash, Dash>>)>>,
     <<LineOf(<<Word(1), <<"P", "e", "r", "h", "a", "p", "s", ",">>,
                <<"c", "o", "u", "l", "d", "n", "'", "t">>>>)>>,
     <<LineOf(<<Maybe>> \o [i \in 1..9 |-> <<LowerCase[i]>>])>>,
     <<LineOf(<<Word(7), Word(9)>>)>>,
     <<LineOf(<<<<"a">>, <<"1">>, Dash, Dash, Dash, Dash>>)>>}

\* every stream under the default configuration, the evicting ones also in
\* a window of three records, and one with the pattern panel off
InitPatterns ==
    \/ \E in \in PatternInputs : InitWith(DefaultArgs, in)
    \/ \E in \in EvictingInputs :
            InitWith([DefaultArgs EXCEPT !.buffer_size = ListingMinCount], in)
    \/ InitWith([DefaultArgs EXCEPT !.patterns = FALSE], TwoPatterns)

SpecPatterns == InitPatterns /\ [][Next]_vars

(***************************************************************************)
(* Properties.                                                             *)
(***************************************************************************)
Window == state.token_buffer
Range(seq) == {seq[i] : i \in 1..Len(seq)}
\* occurrences of a text among the records of the window
Occurrences(text) == Cardinality({i \in 1..Len(Window) : Window[i].token = text})
Evicted == Len(pushed) > Len(Window)

\* C1: after N pushes into a window of capacity C = buffer_size (C = 0
\* included) the window holds min(N, C) records.
C1_LengthIsMinOfPushesAndCapacity ==
    Len(Window) = Min(Len(pushed), args.buffer_size)

\* C2: after every update the frequency table holds, for every text, the
\* number of records of the window with that text: its keys are the texts of
\* the window, no count is 0 and the counts are the occurrences (so they sum
\* to the window length).
C2_TrackerMatchesWindow ==
    /\ DOMAIN state.pattern_tracker = Range(Texts(Window))
    /\ \A text \in DOMAIN state.pattern_tracker :
          /\ state.pattern_tracker[text] # 0
          /\ state.pattern_tracker[text] = Occurrences(text)

\* C2 witness: the last push evicted a record whose text another record
\* of the window before that push carried (the count went from 2 to 1
\* before the new record was counted).
C2_Witness ==
    /\ Evicted
    /\ \E i \in 1..(Len(Window) - 1) :
          Window[i].token = pushed[Len(pushed) - Len(Window)].token

RECURSIVE AllTokens(_)
AllTokens(lines) ==
    IF lines = <<>> THEN <<>>
    ELSE (IF Head(lines).ok THEN tokenize_line(Head(lines).text) ELSE <<>>)
         \o AllTokens(Tail(lines))

IsPrefix(p, q) == Len(p) <= Len(q) /\ SubSeq(q, 1, Len(p)) = p

\* C3: the records pushed into the window are a prefix of the records the
\* reader sent, which are a prefix of the tokens of the input in line order
\* and left to right within a line.
C3_PushedInProductionOrder ==
    /\ IsPrefix(pushed, sent)
    /\ IsPrefix(Texts(sent), AllTokens(stdin))

\* C3 witness: two different tokens were pushed while a third waits in the
\* channel.
C3_Witness ==
    /\ Len(pushed) >= 2
    /\ pushed[1].token # pushed[2].token
    /\ channel # <<>>

GramAt(i) == SubSeq(Texts(Window), i, i + NgramSize - 1)
GramCount(i) ==
    Cardinality({j \in 1..(Len(Window) - NgramSize + 1) : GramAt(j) = GramAt(i)})

\* C5: a 3-gram of the window that occurs at least 3 times is reported with
\* its joined text and its count.
C5_RepeatedPhraseReported ==
    \A i \in 1..(Len(Window) - NgramSize + 1) :
        GramCount(i) >= NgramRepeatThreshold =>
            [kind |-> "Repeated phrase", phrase |-> Join(GramAt(i), Space),
             count |-> GramCount(i)] \in Range(state.detected_patterns)

DistinctTexts == Cardinality(Range(Texts(Window)))

C7_ICannotWarned ==
    (\E i \in 1..Len(Window) :
        /\ Len(Window) - i < RecentSlice
        /\ i + Len(tokenize_line(ICannot)) - 1 <= Len(Window)
        /\ SubSeq(Texts(Window), i, i + Len(tokenize_line(ICannot)) - 1)
              = tokenize_line(ICannot))
    => Warning("Hallucination marker", hallucination_markers[2])
          \in Range(state.warning_flags)

\* C8: with a non-empty window 0 <= repetition_score < 1, and it is 0 iff
\* the texts of the window are pairwise distinct.
C8_RepetitionScoreRange ==
    Window # <<>> =>
        /\ state.repetition_score[2] > 0
        /\ 0 <= state.repetition_score[1]
        /\ state.repetition_score[1] < state.repetition_score[2]
        /\ (state.repetition_score[1] = 0
            <=> \A i, j \in 1..Len(Window) :
                   Window[i].token = Window[j].token => i = j)

\* C8 witness: after an eviction the window holds a repeated text and
\* the score is positive.
C8_Witness ==
    /\ Evicted
    /\ state.repetition_score[1] > 0
    /\ \E i, j \in 1..Len(Window) : i # j /\ Window[i].token = Window[j].token

\* C9: an update at instant now sets tokens_per_second to the number of
\* records that arrived within the second before now, whatever the
\* capacity: the count over every record pushed so far.
C9_TokensPerSecondIgnoresCapacity ==
    [][pushed' # pushed =>
        state'.tokens_per_second =
            Cardinality({i \in 1..Len(pushed') :
                            clock' - pushed'[i].timestamp < TicksPerSecond})]_vars

\* C10: once a drain has found the channel empty and the Sender dropped,
\* the loop ends after that iteration's render: no further iteration starts.
C10_LoopEndsAfterDisconnect ==
    [][(cpc = "sleep" /\ recv_err = "Disconnected") => cpc' = "sleep"]_vars

\* C11: whenever the reader holds a token not yet sent, its send step is
\* enabled, whatever the channel holds and wherever the main loop is.
C11_SendNeverWaits ==
    (tx_alive /\ tokens # <<>>) => ENABLED Send

\* C11 witness: the reader holds a token while two messages are queued and
\* the main loop sleeps.
C11_Witness ==
    /\ tx_alive
    /\ tokens # <<>>
    /\ Len(channel) >= 2
    /\ cpc = "sleep"

\* C12: the main loop reaches the interval check only from a drain that found
\* the queue empty, with every token sent so far pushed; a panel is drawn only
\* at the interval check, without a push, and a push happens only inside the
\* drain, with no panel drawn.
C12_RenderOnlyAfterEmptyDrain ==
    [][ /\ (cpc = "drain" /\ cpc' = "check")
            => (channel = <<>> /\ pushed = sent /\ pushed' = pushed)
        /\ (panel' # panel /\ panel' # <<>>)
            => (cpc = "check" /\ pushed' = pushed)
        /\ (pushed' # pushed)
            => (cpc = "drain" /\ cpc' = "drain" /\ panel = <<>> /\ panel' = <<>>)
      ]_vars

\* C12 witness: a panel drawn after two pushes, while the reader has already
\* queued a further token behind the finished drain.
C12_Witness ==
    /\ panel # <<>>
    /\ Len(pushed) >= 2
    /\ channel # <<>>

\* the lines of a character stream; an unterminated rest counts as a line
RECURSIVE LinesFrom(_, _)
LinesFrom(out, cur) ==
    IF out = <<>> THEN (IF cur = <<>> THEN <<>> ELSE <<cur>>)
    ELSE IF Head(out) = "\n" THEN <<cur>> \o LinesFrom(Tail(out), <<>>)
    ELSE LinesFrom(Tail(out), Append(cur, Head(out)))

Lines(out) == LinesFrom(out, <<>>)

\* C13: in raw mode no AnalysisState and no channel exist and the main loop
\* is never entered; the output lines are always the tokens of the lines read
\* so far less the ones still to print, in input order; the run returns, and
\* then the output lines are exactly the tokens of the whole input.
C13_RawEmitsInputTokens ==
    /\ [](/\ state = NotCreated
          /\ channel = NotCreated
          /\ ~tx_alive
          /\ cpc \in {"raw", "returned"}
          /\ Lines(stdout) \o tokens = AllTokens(SubSeq(stdin, 1, line_no))
          /\ cpc = "returned" => Lines(stdout) = AllTokens(stdin))
    /\ <>(cpc = "returned")

\* C13 witness: raw mode returned after an undecodable line, an empty line
\* and three printed tokens.
C13_Witness ==
    /\ cpc = "returned"
    /\ state = NotCreated
    /\ \E i \in 1..Len(stdin) : ~stdin[i].ok
    /\ Len(Lines(stdout)) >= 3

HasAdjacentEqual(token) ==
    \E i \in 1..(Len(token) - 1) : token[i] = token[i + 1]

\* C14: the flag of every evaluated token is true exactly when the token has
\* two equal adjacent characters.
C14_FlagIffAdjacentEqual ==
    \A i \in 1..Len(sent) :
        sent[i].is_repetitive <=> HasAdjacentEqual(sent[i].token)

\* C15: among the evaluated tokens, a token that is no longer than another
\* has no larger perplexity.
C15_PerplexityMonotonic ==
    \A i, j \in 1..Len(sent) :
        Len(sent[i].token) <= Len(sent[j].token)
            => sent[i].perplexity <= sent[j].perplexity

AllAlphabetic(token) == \A i \in 1..Len(token) : token[i] \in Letters
HasDigit(token) == \E i \in 1..Len(token) : token[i] \in Digits

IsZero(q) == q[1] = 0 /\ q[2] > 0

\* C17: the divisor of every stored mean and ratio is positive, and is the
\* window length once the window holds a record; while the window is empty
\* tokens_per_second, avg_perplexity, confidence_score and repetition_score
\* are 0 and no pattern or warning was computed; a panel drawn from an empty
\* window shows these zeros and both bars are drawn without a panic.
C17_EmptyWindowMetricsZero ==
    /\ state.avg_perplexity[2] > 0
    /\ state.confidence_score[2] > 0
    /\ state.repetition_score[2] > 0
    /\ Window # <<>> =>
        /\ state.avg_perplexity[2] = Len(Window)
        /\ state.confidence_score[2] = Len(Window)
        /\ state.repetition_score[2] = Len(Window)
    /\ Window = <<>> =>
        /\ state.tokens_per_second = 0
        /\ IsZero(state.avg_perplexity)
        /\ IsZero(state.confidence_score)
        /\ IsZero(state.repetition_score)
        /\ state.detected_patterns = <<>>
        /\ state.warning_flags = <<>>
    /\ (panel # <<>> /\ Window = <<>>) =>
        /\ panel[1].tokens_per_second = 0
        /\ IsZero(panel[1].avg_perplexity)
        /\ ~panel[1].perplexity_status
        /\ panel[1].repetition_bar = [panic |-> FALSE, filled |-> 0, empty |-> 10]
        /\ panel[1].confidence_bar = [panic |-> FALSE, filled |-> 0, empty |-> 10]
        /\ panel[1].repetition_percent = 0
        /\ panel[1].confidence_percent = 0

\* C17 witness: a panel was drawn while the window was still empty, with a
\* token already waiting in the channel.
C17_Witness ==
    /\ Window = <<>>
    /\ panel # <<>>
    /\ channel # <<>>

CountOf(seq, e) == Cardinality({i \in 1..Len(seq) : seq[i] = e})

Hedges ==
    {i \in 1..Len(Window) :
        \E word \in uncertainty_words : Contains(ToLowercase(Window[i].token), word)}

StartsWithEnumerator(t) ==
    \/ t[1] \in {"-", "*", "U+2022"}
    \/ Len(t) >= 2 /\ t[1] \in {"1", "2", "3"} /\ t[2] = "."

Enumerators == {i \in 1..Len(Window) : StartsWithEnumerator(Window[i].token)}

Once(cond) == IF cond THEN 1 ELSE 0

C19_RenderedRateIsCurrent ==
    [][(panel = <<>> /\ panel' # <<>>) =>
            panel'[1].tokens_per_second =
                Cardinality({i \in 1..Len(state'.token_buffer) :
                    clock' - state'.token_buffer[i].timestamp < TicksPerSecond})
      ]_vars

ListingEntries ==
    {i \in 1..Len(state.detected_patterns) :
        state.detected_patterns[i].kind = "Listing pattern detected"}

\* C20: the detected patterns hold the listing entry iff at least 3 tokens of
\* the window begin with "1.", "2.", "3.", "-", "*" or the bullet, and never
\* hold it more than once.
C20_ListingIffThreeEnumerators ==
    /\ (ListingEntries # {}) <=> (Cardinality(Enumerators) >= 3)
    /\ Cardinality(ListingEntries) <= 1
    /\ \A i \in ListingEntries : state.detected_patterns[i] = ListingPattern

\* C20 witness: five tokens of the window begin with an enumerator prefix,
\* among them one that continues after the prefix, and the entry is held once.
C20_Witness ==
    /\ Cardinality(Enumerators) = 5
    /\ \E i \in Enumerators : Len(Window[i].token) = 3
    /\ Cardinality(ListingEntries) = 1

\* a window in which two tokens begin with an enumerator prefix and two more
\* hold one further on: no listing entry
C20_NotAPrefix ==
    /\ Cardinality(Enumerators) = 2
    /\ Len(Window) = 4
    /\ \A i \in 1..Len(Window) :
        \E ind \in listing_indicators : Contains(Window[i].token, ind)
    /\ ListingEntries = {}

UncertaintyEntries ==
    {i \in 1..Len(state.detected_patterns) :
        state.detected_patterns[i].kind = "High uncertainty language"}

\* C21: the detected patterns hold the uncertainty entry iff more than one
\* tenth of the window's tokens contain, in any letter case, one of maybe,
\* perhaps, probably, might, could; the entry is never held twice.
C21_UncertaintyIffAboveTenth ==
    /\ (UncertaintyEntries # {}) <=> (Cardinality(Hedges) * 10 > Len(Window))
    /\ Cardinality(UncertaintyEntries) <= 1
    /\ \A i \in UncertaintyEntries : state.detected_patterns[i] = UncertaintyPattern

\* C21 witness: one of ten window tokens is a hedging word, a fraction of
\* exactly 0.1, and the entry is not held.
C21_Witness ==
    /\ Len(Window) = 10
    /\ Cardinality(Hedges) = 1
    /\ UncertaintyEntries = {}

\* a capitalised hedging word followed by a comma and one inside a longer
\* token are counted
C21_CaseAndInfix ==
    /\ Len(Window) = 3
    /\ Cardinality(Hedges) = 2
    /\ \A i \in Hedges : Window[i].token \notin uncertainty_words
    /\ Cardinality(UncertaintyEntries) = 1

PatternRank(entry) ==
    IF entry.kind = "Repeated phrase" THEN 1
    ELSE IF entry.kind = "Listing pattern detected" THEN 2
    ELSE IF entry.kind = "High uncertainty language" THEN 3
    ELSE 0

\* C22: in the detected patterns every phrase report precedes the listing
\* entry, which precedes the uncertainty entry; a panel shows the first 3
\* entries of the list, or all of them if there are fewer, when the pattern
\* panel is enabled, and none when it is not.
C22_PatternOrderAndDisplayCap ==
    LET pats == state.detected_patterns IN
    /\ \A i \in 1..Len(pats) : PatternRank(pats[i]) \in 1..3
    /\ \A i, j \in 1..Len(pats) : i < j => PatternRank(pats[i]) <= PatternRank(pats[j])
    /\ panel # <<>> =>
        LET shown == panel[1].patterns IN
        /\ Len(shown) <= 3
        /\ args.patterns =>
            /\ Len(shown) = IF Len(pats) < 3 THEN Len(pats) ELSE 3
            /\ \A i \in 1..Len(shown) : shown[i] = pats[i]
        /\ ~args.patterns => shown = <<>>

\* C22 witness: a panel with the pattern panel enabled shows the listing
\* entry followed by the uncertainty entry.
C22_Witness ==
    /\ panel # <<>>
    /\ args.patterns
    /\ Len(state.detected_patterns) = 2
    /\ PatternRank(panel[1].patterns[1]) = 2
    /\ PatternRank(panel[1].patterns[2]) = 3

\* a panel drawn with the pattern panel disabled while two patterns are held
C22_PanelDisabled ==
    /\ panel # <<>>
    /\ ~args.patterns
    /\ Len(state.detected_patterns) = 2
    /\ panel[1].patterns = <<>>

\* C23: the warnings hold "Perplexity rising" iff the mean perplexity of
\* the window's records is greater than perplexity_threshold.
C23_PerplexityRisingIffAboveThreshold ==
    (Warning("Perplexity rising", <<>>) \in Range(state.warning_flags))
        <=> (/\ Window # <<>>
             /\ SumOf(Window, "perplexity") > args.perplexity_threshold * Len(Window))

\* C23 witness: two records of perplexity 20.5 and 19.5, a mean of exactly
\* the threshold 20.0, and no perplexity warning.
C23_Witness ==
    /\ Len(Window) = 2
    /\ Window[1].perplexity > args.perplexity_threshold
    /\ SumOf(Window, "perplexity") = args.perplexity_threshold * 2
    /\ Warning("Perplexity rising", <<>>) \notin Range(state.warning_flags)

\* C24: the warnings hold "Low confidence" iff the mean confidence of the
\* window's records is less than confidence_threshold.
C24_LowConfidenceIffBelowThreshold ==
    (Warning("Low confidence", <<>>) \in Range(state.warning_flags))
        <=> (/\ Window # <<>>
             /\ SumOf(Window, "confidence") * 100 < args.confidence_threshold * Len(Window))

\* a state holding the current window and frequency table whose metrics,
\* patterns and warnings were never computed
Uncomputed ==
    [new(state.capacity) EXCEPT !.token_buffer = state.token_buffer,
                                !.pattern_tracker = state.pattern_tracker]

SameQuotient(p, q) == p[1] * q[2] = q[1] * p[2]

\* the metrics one computation over the current window gives
Once_avg_perplexity == <<SumOf(Window, "perplexity"), Len(Window)>>
Once_confidence_score ==
    LET sum == sum_confidence(Window, <<0, 0>>) IN <<sum[1], Len(Window), sum[2]>>
Once_repetition_score == <<Len(Window) - DistinctTexts, Len(Window)>>

\* C25: when the main loop decides about a render, the mean perplexity, the
\* mean confidence, the repetition ratio, the patterns and the warnings that
\* the pushes of the drain left behind are those of one computation over the
\* window as it is after the last push.
C25_PerPushEqualsOnceAfterDrain ==
    (cpc = "check" /\ Window # <<>>) =>
        LET once == [Uncomputed EXCEPT !.avg_perplexity = Once_avg_perplexity,
                                       !.confidence_score = Once_confidence_score,
                                       !.repetition_score = Once_repetition_score]
        IN
        /\ SameQuotient(state.avg_perplexity, once.avg_perplexity)
        /\ state.confidence_score = once.confidence_score
        /\ SameQuotient(state.repetition_score, once.repetition_score)
        /\ state.detected_patterns = detect_patterns(once).detected_patterns
        /\ state.warning_flags = check_warnings(once, args).warning_flags

\* C25 witness: at the render decision four records have been pushed; the
\* first three alone justified a listing entry and two warnings, and the
\* state holds none of them.
C25_Witness ==
    /\ cpc = "check"
    /\ Len(pushed) = 4
    /\ \A i \in 1..3 : StartsWithEnumerator(pushed[i].token)
    /\ Cardinality(Enumerators) < 3
    /\ clock = 0
    /\ state.detected_patterns = <<>>
    /\ state.warning_flags = <<>>

\* C26: repetition_score and confidence_score always lie in [0, 1], and in
\* every panel both bars are drawn without a panic, with at most 10 filled
\* cells and 10 cells in all.
C26_BarValuesInUnitRange ==
    /\ state.repetition_score[2] > 0
    /\ state.repetition_score[1] >= 0
    /\ state.repetition_score[1] <= state.repetition_score[2]
    /\ state.confidence_score[2] > 0
    /\ state.confidence_score[1] >= 0
    /\ state.confidence_score[1] <= 10 * state.confidence_score[2]
    /\ panel # <<>> =>
        \A bar \in {panel[1].repetition_bar, panel[1].confidence_bar} :
            /\ ~bar.panic
            /\ bar.filled \in 0..10
            /\ bar.filled + bar.empty = 10

\* C26 witness: a panel drawn after an eviction, its repetition bar at least
\* half filled and its confidence bar filled to 8 cells.
C26_Witness ==
    /\ panel # <<>>
    /\ Evicted
    /\ panel[1].repetition_bar.filled >= 5
    /\ panel[1].confidence_bar.filled = 8

\* C27: while no token has been pushed the state holds no warning and no
\* pattern and every panel shows none, although the initial confidence_score
\* 0 is below the confidence threshold.
C27_NothingReportedBeforeFirstPush ==
    pushed = <<>> =>
        /\ state.confidence_score[1] = 0
        /\ state.confidence_score[1] * 100 < args.confidence_threshold * state.confidence_score[2]
        /\ state.warning_flags = <<>>
        /\ state.detected_patterns = <<>>
        /\ panel # <<>> =>
            /\ panel[1].warnings = <<>>
            /\ panel[1].patterns = <<>>

\* C27 witness: a panel drawn with the pattern panel enabled before the
\* first push, after the reader reached the end of its input.
C27_Witness ==
    /\ pushed = <<>>
    /\ panel # <<>>
    /\ args.patterns
    /\ ~tx_alive
    /\ panel[1].warnings = <<>>

\* C28: a panel is drawn only by a step from the interval check to the
\* sleep, taken when at least the interval has passed since last_update, the
\* instant of the previous render or of start-up, and it sets last_update to
\* the present; last_update changes in no other way; the interval check is
\* left only for the sleep, and a drain is entered only from the sleep.
C28_RenderSpacingAndSleep ==
    [][ /\ (panel' # panel /\ panel' # <<>>) =>
            /\ panel = <<>>
            /\ cpc = "check" /\ cpc' = "sleep"
            /\ clock - last_update >= args.interval
            /\ last_update' = clock'
        /\ last_update' # last_update => (panel = <<>> /\ panel' # <<>>)
        /\ last_update' >= last_update
        /\ (cpc = "check" /\ cpc' # "check") => cpc' = "sleep"
        /\ (cpc # "drain" /\ cpc' = "drain") => cpc = "sleep"
        /\ (cpc = "drain" /\ cpc' # "drain") => cpc' = "check"
      ]_vars

\* C28 witness: an iteration that follows a render reached its sleep without
\* drawing a panel, the interval not having passed.
C28_Witness ==
    /\ cpc = "sleep"
    /\ panel = <<>>
    /\ last_update > 0
    /\ clock - last_update < args.interval

IsToken(text) ==
    /\ text # <<>>
    /\ \A i \in 1..Len(text) : text[i] \notin WhiteSpace

\* C30: every text held in the window and every key of pattern_tracker is a
\* non-empty string without a whitespace character.
C30_TokensHaveNoWhitespace ==
    /\ \A i \in 1..Len(Window) : IsToken(Window[i].token)
    /\ \A key \in DOMAIN state.pattern_tracker : IsToken(key)

\* C30 witness: the window and the frequency table hold the tokens a and b
\* after the reader has passed an empty line and a line of whitespace only.
C30_Witness ==
    /\ Len(Window) >= 2
    /\ DOMAIN state.pattern_tracker = {<<"a">>, <<"b">>}
    /\ \E i \in 1..line_no : stdin[i].ok /\ stdin[i].text = <<>>
    /\ \E i \in 1..line_no :
        /\ stdin[i].ok
        /\ stdin[i].text # <<>>
        /\ \A k \in 1..Len(stdin[i].text) : stdin[i].text[k] \in WhiteSpace

=============================================================================
